---- MODULE Spec2Model ----
(***************************************************************************)
(* A model of mottle: the theme-building DSL (src/dsl.rs), the theme data  *)
(* model and its serialization (src/proto.rs, src/proto/semantic.rs,       *)
(* src/proto/textmate.rs) and the rule-adding path of the typestate        *)
(* builder (src/dsl/semantic_highlighting_typestate.rs).                   *)
(*                                                                         *)
(* Representation.                                                         *)
(*   text        a sequence of one-character strings, <<"a", "-", "b">>    *)
(*   Option<T>   <<>> for None, <<x>> for Some(x)                          *)
(*   u32         [hi |-> 0..65535, lo |-> 0..65535], the value being       *)
(*               hi * 65536 + lo (TLC's integers are 32-bit signed)        *)
(*   Vec<T>      a sequence                                                *)
(*   IndexMap    a sequence of [key, value] records with distinct keys,    *)
(*               in insertion order                                        *)
(*   Result      [ok |-> TRUE, value |-> v] or [ok |-> FALSE, error |-> e] *)
(***************************************************************************)
EXTENDS Integers, Sequences, FiniteSets, TLC

VARIABLES
    impl,             \* which rule-adding code the builder runs
    textmate_rules,   \* ThemeBuilder.textmate_rules : Vec<textmate::Rule>
    semantic_rules,   \* ThemeBuilder.semantic_rules : IndexMap<Selector, Style>
    workbench_rules,  \* ThemeBuilder.workbench_rules : IndexMap<str, Color>
    calls,            \* the calls made so far, in order (history)
    theme,            \* the proto::Theme that `build` returned: <<>> before it
    fs,               \* the file system under the working directory
    input,            \* the call of a library function: [fn, arg]
    output            \* what that call returned: <<>> before it ran

vars == <<impl, textmate_rules, semantic_rules, workbench_rules, calls, theme, fs,
          input, output>>

builder_vars == <<impl, textmate_rules, semantic_rules, workbench_rules, calls>>

(***************************************************************************)
(* Bounds                                                                  *)
(***************************************************************************)
MaxCalls == 2

MaxIdLen == 2

MaxModifiers == 2

MaxSelectors == 3

None == <<>>

Some(x) == <<x>>

\* The file system before anything is written: no `themes` entry, no files.
NoFiles == [themes |-> "absent", files |-> {}]

(***************************************************************************)
(* src/proto.rs, src/dsl.rs: colours                                       *)
(***************************************************************************)
\* u32::to_le_bytes: the four bytes, least significant first.
to_le_bytes(rgba) ==
    <<rgba.lo % 256, rgba.lo \div 256, rgba.hi % 256, rgba.hi \div 256>>

\* u32::to_be_bytes: the four bytes, most significant first.
to_be_bytes(rgba) ==
    <<rgba.hi \div 256, rgba.hi % 256, rgba.lo \div 256, rgba.lo % 256>>

Color(rgba) ==
    LET bytes == to_be_bytes(rgba)
    IN  [r |-> bytes[1], g |-> bytes[2], b |-> bytes[3], a |-> bytes[4]]

(***************************************************************************)
(* src/dsl.rs: Style and its three conversions                             *)
(***************************************************************************)
FontStyle == {"Bold", "Italic", "Underline"}

Style_from_u32(rgba) ==
    [foreground |-> Some(Color(rgba)), font_style |-> None]

Style_from_FontStyle(font_style) ==
    [foreground |-> None, font_style |-> Some(font_style)]

Style_from_tuple(rgba, font_style) ==
    [foreground |-> Some(Color(rgba)), font_style |-> Some(font_style)]

(***************************************************************************)
(* indexmap::IndexMap::insert, as the builder uses it: an existing key     *)
(* keeps its place and takes the new value, a new key goes to the end.     *)
(***************************************************************************)
IndexMap_insert(map, key, value) ==
    IF \E i \in 1..Len(map) : map[i].key = key
    THEN [i \in 1..Len(map) |->
             IF map[i].key = key THEN [key |-> key, value |-> value] ELSE map[i]]
    ELSE Append(map, [key |-> key, value |-> value])

\* `for k in keys { map.insert(k, value) }`
RECURSIVE insert_all(_, _, _)
insert_all(map, keys, value) ==
    IF keys = <<>> THEN map
    ELSE insert_all(IndexMap_insert(map, Head(keys), value), Tail(keys), value)

IndexMap_get(map, key) ==
    IF \E i \in 1..Len(map) : map[i].key = key
    THEN Some((CHOOSE e \in {map[i] : i \in 1..Len(map)} : e.key = key).value)
    ELSE None

IndexMap_keys(map) == [i \in 1..Len(map) |-> map[i].key]

(***************************************************************************)
(* src/proto/semantic.rs: Identifier                                       *)
(***************************************************************************)
AsciiUppercase ==
    {"A", "B", "C", "D", "E", "F", "G", "H", "I", "J", "K", "L", "M",
     "N", "O", "P", "Q", "R", "S", "T", "U", "V", "W", "X", "Y", "Z"}

AsciiLowercase ==
    {"a", "b", "c", "d", "e", "f", "g", "h", "i", "j", "k", "l", "m",
     "n", "o", "p", "q", "r", "s", "t", "u", "v", "w", "x", "y", "z"}

AsciiDigit == {"0", "1", "2", "3", "4", "5", "6", "7", "8", "9"}

\* char::is_ascii_alphanumeric
is_ascii_alphanumeric(c) == c \in AsciiUppercase \cup AsciiLowercase \cup AsciiDigit

Ok(value) == [ok |-> TRUE, value |-> value]

Err(error) == [ok |-> FALSE, error |-> error]

\* The message naming the first character of the text, not the text.
invalid_character_message_first_char(str) ==
    <<"i", "n", "v", "a", "l", "i", "d", " ",
      "c", "h", "a", "r", "a", "c", "t", "e", "r", " ",
      "i", "n", " ", "U+2018">> \o SubSeq(str, 1, 1) \o <<"U+2019">>

\* format!("invalid character in ‘{s}’"): U+2018 and U+2019 are the two quotes
invalid_character_message(str) ==
    <<"i", "n", "v", "a", "l", "i", "d", " ",
      "c", "h", "a", "r", "a", "c", "t", "e", "r", " ",
      "i", "n", " ", "U+2018">> \o str \o <<"U+2019">>

\* Identifier::new with the hyphen forgotten: only alphanumerics pass.
RECURSIVE Identifier_new_alphanumeric_only(_, _)
Identifier_new_alphanumeric_only(str, i) ==
    IF i > Len(str) THEN Ok(str)
    ELSE IF ~is_ascii_alphanumeric(str[i])
         THEN Err(<<"i", "n", "v", "a", "l", "i", "d", " ",
                    "c", "h", "a", "r", "a", "c", "t", "e", "r", " ",
                    "i", "n", " ", "U+2018">> \o str \o <<"U+2019">>)
         ELSE Identifier_new_alphanumeric_only(str, i + 1)

\* Identifier::new's loop from character i on: the first character that is
\* neither alphanumeric nor '-' returns the error, the end of the text Ok.
RECURSIVE Identifier_new_from(_, _)
Identifier_new_from(str, i) ==
    IF i > Len(str) THEN Ok(str)
    ELSE IF ~is_ascii_alphanumeric(str[i]) /\ str[i] # "-"
         THEN Err(invalid_character_message(str))
         ELSE Identifier_new_from(str, i + 1)

Identifier_new(str) == Identifier_new_from(str, 1)

(***************************************************************************)
(* src/proto.rs: impl Serialize for Color                                  *)
(***************************************************************************)
HexDigits == <<"0", "1", "2", "3", "4", "5", "6", "7",
               "8", "9", "A", "B", "C", "D", "E", "F">>

\* {:X}: uppercase hexadecimal with no padding
format_X(byte) ==
    IF byte < 16 THEN <<HexDigits[byte + 1]>>
    ELSE <<HexDigits[(byte \div 16) + 1], HexDigits[(byte % 16) + 1]>>

\* {:02X} of a u8: uppercase hexadecimal, zero-padded to two digits
format_02X(byte) == <<HexDigits[(byte \div 16) + 1], HexDigits[(byte % 16) + 1]>>

Color_serialize(color) ==
    IF color.a = 255
    THEN <<"#">> \o format_02X(color.r) \o format_02X(color.g) \o format_02X(color.b)
    ELSE <<"#">> \o format_02X(color.r) \o format_02X(color.g) \o format_02X(color.b)
                 \o format_02X(color.a)

(***************************************************************************)
(* src/proto/semantic.rs: impl Serialize for Selector                      *)
(***************************************************************************)
\* The loop skipping a modifier already pushed.
RECURSIVE push_modifiers_once(_, _, _)
push_modifiers_once(str, modifiers, seen) ==
    IF modifiers = <<>> THEN str
    ELSE IF Head(modifiers) \in seen
         THEN push_modifiers_once(str, Tail(modifiers), seen)
         ELSE push_modifiers_once(str \o <<".">> \o Head(modifiers), Tail(modifiers),
                                  seen \cup {Head(modifiers)})

push_modifiers_dedup(str, modifiers) == push_modifiers_once(str, modifiers, {})

\* `for modifier in &self.modifiers { s.push('.'); s.push_str(&modifier.0) }`
RECURSIVE push_modifiers(_, _)
push_modifiers(str, modifiers) ==
    IF modifiers = <<>> THEN str
    ELSE push_modifiers(str \o <<".">> \o Head(modifiers), Tail(modifiers))

\* The encoding with the language pushed after '.', as a modifier is.
Selector_serialize_language_as_modifier(selector) ==
    LET kind == IF selector.kind.tag = "Wildcard" THEN <<"*">> ELSE selector.kind.id
        with_modifiers == push_modifiers(kind, selector.modifiers)
    IN  IF selector.language # None
        THEN with_modifiers \o <<".">> \o selector.language[1]
        ELSE with_modifiers

Selector_serialize(selector) ==
    LET kind == IF selector.kind.tag = "Wildcard" THEN <<"*">> ELSE selector.kind.id
        with_modifiers == push_modifiers(kind, selector.modifiers)
    IN  IF selector.language # None
        THEN with_modifiers \o <<":">> \o selector.language[1]
        ELSE with_modifiers

(***************************************************************************)
(* What a serializer hands to serde_json: a string, a boolean, an array,   *)
(* a struct (fields with fixed names, in the order they were serialized)   *)
(* and a map (entries with text keys, in the order the map yields them).   *)
(***************************************************************************)
JString(text) == [json |-> "String", text |-> text]

JBool(bool) == [json |-> "Bool", bool |-> bool]

JArray(items) == [json |-> "Array", items |-> items]

JStruct(fields) == [json |-> "Struct", fields |-> fields]

JMap(entries) == [json |-> "Map", entries |-> entries]

\* strukt.serialize_field(key, value)
Field(key, value) == [key |-> key, value |-> value]

(***************************************************************************)
(* src/proto/textmate.rs: impl Serialize for RuleSettings, and the derived *)
(* serializer of Rule                                                      *)
(***************************************************************************)
\* `if let Some(foreground) = self.foreground { strukt.serialize_field(..) }`
foreground_field(foreground) ==
    IF foreground # None
    THEN <<Field("foreground", JString(Color_serialize(foreground[1])))>>
    ELSE <<>>

\* `if flag { if !s.is_empty() { s.push(' '); } s.push_str(name); }`
push_font_style(str, flag, name) ==
    IF flag
    THEN (IF str # <<>> THEN str \o <<" ">> ELSE str) \o name
    ELSE str

\* The string s of the Set arm: italic, then bold, then underline.
font_style_string(font_style) ==
    push_font_style(
        push_font_style(
            push_font_style(<<>>, font_style.italic, <<"i", "t", "a", "l", "i", "c">>),
            font_style.bold, <<"b", "o", "l", "d">>),
        font_style.underline, <<"u", "n", "d", "e", "r", "l", "i", "n", "e">>)

\* The serializer leaving fontStyle out when the string is empty.
RuleSettings_serialize_omitting_empty(settings) ==
    IF settings.font_style.tag = "Inherit"
    THEN JStruct(foreground_field(settings.foreground))
    ELSE IF font_style_string(settings.font_style) = <<>>
         THEN JStruct(foreground_field(settings.foreground))
         ELSE JStruct(foreground_field(settings.foreground)
                      \o <<Field("fontStyle",
                                 JString(font_style_string(settings.font_style)))>>)

RuleSettings_serialize(settings) ==
    IF settings.font_style.tag = "Inherit"
    THEN JStruct(foreground_field(settings.foreground))
    ELSE JStruct(foreground_field(settings.foreground)
                 \o <<Field("fontStyle",
                            JString(font_style_string(settings.font_style)))>>)

\* #[derive(Serialize)] #[serde(rename_all = "camelCase")] struct Rule
Rule_serialize(rule) ==
    JStruct(<<Field("scope", JArray([i \in 1..Len(rule.scope) |-> JString(rule.scope[i])])),
              Field("settings", RuleSettings_serialize(rule.settings))>>)

(***************************************************************************)
(* src/proto/semantic.rs: impl Serialize for Style and for Highlighting    *)
(***************************************************************************)
\* The match on one axis emitting a field for True only.
axis_field_when_true(key, setting) ==
    CASE setting = "True" -> <<Field(key, JBool(TRUE))>>
      [] setting = "False" -> <<>>
      [] setting = "Inherit" -> <<>>

\* `match self.font_style.bold { True => .., False => .., Inherit => {} }`
axis_field(key, setting) ==
    CASE setting = "True" -> <<Field(key, JBool(TRUE))>>
      [] setting = "False" -> <<Field(key, JBool(FALSE))>>
      [] setting = "Inherit" -> <<>>

Style_serialize(style) ==
    JStruct(foreground_field(style.foreground)
            \o axis_field("bold", style.font_style.bold)
            \o axis_field("italic", style.font_style.italic)
            \o axis_field("underline", style.font_style.underline))

\* The serializer yielding the entries of the map last to first.
semantic_rules_serialize_reversed(rules) ==
    JMap([i \in 1..Len(rules) |->
             Field(Selector_serialize(rules[Len(rules) + 1 - i].key),
                   Style_serialize(rules[Len(rules) + 1 - i].value))])

\* serde's serializer of IndexMap<Selector, Style>: the entries in map order
semantic_rules_serialize(rules) ==
    JMap([i \in 1..Len(rules) |->
             Field(Selector_serialize(rules[i].key), Style_serialize(rules[i].value))])

Off == [tag |-> "Off"]

On(rules) == [tag |-> "On", rules |-> rules]

\* The serializer leaving semanticTokenColors out of an empty rule map.
Highlighting_serialize_omitting_empty(highlighting) ==
    IF highlighting.tag = "Off"
    THEN JStruct(<<Field("semanticHighlighting", JBool(FALSE))>>)
    ELSE IF highlighting.rules = <<>>
         THEN JStruct(<<Field("semanticHighlighting", JBool(TRUE))>>)
         ELSE JStruct(<<Field("semanticHighlighting", JBool(TRUE)),
                        Field("semanticTokenColors",
                              semantic_rules_serialize(highlighting.rules))>>)

Highlighting_serialize(highlighting) ==
    IF highlighting.tag = "Off"
    THEN JStruct(<<Field("semanticHighlighting", JBool(FALSE))>>)
    ELSE JStruct(<<Field("semanticHighlighting", JBool(TRUE)),
                   Field("semanticTokenColors",
                         semantic_rules_serialize(highlighting.rules))>>)

(***************************************************************************)
(* src/proto.rs: the derived serializer of Theme; src/lib.rs:              *)
(* serialize_theme                                                         *)
(***************************************************************************)
\* serde's serializer of IndexMap<Cow<str>, Color>: the entries in map order
workbench_rules_serialize(rules) ==
    JMap([i \in 1..Len(rules) |->
             Field(rules[i].key, JString(Color_serialize(rules[i].value)))])

\* #[serde(flatten)] puts the fields of the highlighting where the field is
Theme_serialize(t) ==
    JStruct(<<Field("name", JString(t.name)),
              Field("tokenColors",
                    JArray([i \in 1..Len(t.textmate_rules) |->
                               Rule_serialize(t.textmate_rules[i])]))>>
            \o Highlighting_serialize(t.semantic_highlighting).fields
            \o <<Field("colors", workbench_rules_serialize(t.workbench_rules))>>)

\* The text as its parts in order: lines written to the buffer before the
\* serializer ran, then the value the pretty printer wrote. The buffer starts
\* as Vec::new() and only the serializer writes to it.
serialize_theme(t) == <<Theme_serialize(t)>>

(***************************************************************************)
(* src/style.rs: Color and FontStyle into json::Value, Style::as_json_value *)
(***************************************************************************)
\* {:X} of an unsigned integer
RECURSIVE upper_hex(_)
upper_hex(n) ==
    IF n < 16 THEN <<HexDigits[n + 1]>>
    ELSE upper_hex(n \div 16) \o <<HexDigits[(n % 16) + 1]>>

RECURSIVE zero_pad(_, _)
zero_pad(digits, width) ==
    IF Len(digits) >= width THEN digits ELSE zero_pad(<<"0">> \o digits, width)

\* impl From<Color> for json::Value: "#{:06X}{:02X}" or "#{:06X}"
Color_into_json(color) ==
    IF color.alpha # None
    THEN JString(<<"#">> \o zero_pad(upper_hex(color.hex), 6)
                 \o zero_pad(upper_hex(color.alpha[1]), 2))
    ELSE JString(<<"#">> \o zero_pad(upper_hex(color.hex), 6))

\* impl From<FontStyle> for json::Value
FontStyle_into_json(font_style) ==
    CASE font_style = "Bold" -> JString(<<"b", "o", "l", "d">>)
      [] font_style = "Italic" -> JString(<<"i", "t", "a", "l", "i", "c">>)
      [] font_style = "BoldItalic" ->
             JString(<<"b", "o", "l", "d", " ", "i", "t", "a", "l", "i", "c">>)
      [] font_style = "Underline" ->
             JString(<<"u", "n", "d", "e", "r", "l", "i", "n", "e">>)
      [] font_style = "Inherit" -> JString(<<>>)

\* json::Map::insert: the value of a key that is present is replaced
Map_insert(map, key, value) ==
    IF \E i \in 1..Len(map) : map[i].key = key
    THEN [i \in 1..Len(map) |-> IF map[i].key = key THEN Field(key, value) ELSE map[i]]
    ELSE Append(map, Field(key, value))

RECURSIVE Map_insert_all(_, _)
Map_insert_all(map, key_value_pairs) ==
    IF key_value_pairs = <<>> THEN map
    ELSE Map_insert_all(Map_insert(map, Head(key_value_pairs).key,
                                   Head(key_value_pairs).value),
                        Tail(key_value_pairs))

Style_as_json_value(self, in_textmate_rule) ==
    LET with_color ==
            IF self.color # None
            THEN Map_insert(<<>>, "foreground", Color_into_json(self.color[1]))
            ELSE <<>>
        key_value_pairs ==
            CASE self.font_style = Some("Bold") -> <<Field("bold", JBool(TRUE))>>
              [] self.font_style = Some("Italic") -> <<Field("italic", JBool(TRUE))>>
              [] self.font_style = Some("BoldItalic") ->
                     <<Field("bold", JBool(TRUE)), Field("italic", JBool(TRUE))>>
              [] self.font_style = Some("Underline") ->
                     <<Field("underline", JBool(TRUE))>>
              [] self.font_style = None -> <<Field("fontStyle", JString(<<>>))>>
    IN  IF self.font_style # Some("Inherit")
        THEN IF in_textmate_rule
             THEN JStruct(Map_insert(with_color, "fontStyle",
                                     IF self.font_style = None THEN JString(<<>>)
                                     ELSE FontStyle_into_json(self.font_style[1])))
             ELSE JStruct(Map_insert_all(with_color, key_value_pairs))
        ELSE JStruct(with_color)

(***************************************************************************)
(* src/dsl.rs: selectors and the functions that start a selector set       *)
(***************************************************************************)
Wildcard == [tag |-> "Wildcard"]

Specific(identifier) == [tag |-> "Specific", id |-> identifier]

TextMate(scope) == [tag |-> "TextMate", scope |-> scope]

Semantic(selector) == [tag |-> "Semantic", selector |-> selector]

IsTextMate(selector) == selector.tag = "TextMate"

IsSemantic(selector) == selector.tag = "Semantic"

\* pub fn tm(scope)
tm(scope) == <<TextMate(scope)>>

\* pub fn s(token_kind), the token kind already converted
s(token_kind) ==
    <<Semantic([kind |-> token_kind, modifiers |-> <<>>, language |-> None])>>

(***************************************************************************)
(* src/dsl.rs: the operators >> (impl Shr) and ^ (impl BitXor); a panic is *)
(* the result [ok |-> FALSE, panic |-> message]                            *)
(***************************************************************************)
Panic(message) == [ok |-> FALSE, panic |-> message]

UnwrapPanic == "called Result::unwrap() on an Err value"

\* The loop of `shr` leaving a TextMate selector as it is.
RECURSIVE shr_from_ignoring_textmate(_, _, _)
shr_from_ignoring_textmate(selectors, rhs, i) ==
    IF i > Len(selectors) THEN Ok(selectors)
    ELSE IF selectors[i].tag = "Semantic"
         THEN IF Identifier_new(rhs).ok
              THEN shr_from_ignoring_textmate(
                       [selectors EXCEPT ![i].selector.modifiers =
                           Append(@, Identifier_new(rhs).value)], rhs, i + 1)
              ELSE Panic(UnwrapPanic)
         ELSE shr_from_ignoring_textmate(selectors, rhs, i + 1)

\* The loop of `shr` skipping a selector that has the modifier already.
RECURSIVE shr_from_deduplicating(_, _, _)
shr_from_deduplicating(selectors, rhs, i) ==
    IF i > Len(selectors) THEN Ok(selectors)
    ELSE IF selectors[i].tag = "Semantic"
         THEN IF Identifier_new(rhs).ok
              THEN shr_from_deduplicating(
                       [selectors EXCEPT ![i].selector.modifiers =
                           IF \E k \in 1..Len(@) : @[k] = Identifier_new(rhs).value
                           THEN @ ELSE Append(@, Identifier_new(rhs).value)],
                       rhs, i + 1)
              ELSE Panic(UnwrapPanic)
         ELSE Panic("cannot add a modifier to TextMate selector")

\* The loop of `shr` from selector i on.
RECURSIVE shr_from(_, _, _)
shr_from(selectors, rhs, i) ==
    IF i > Len(selectors) THEN Ok(selectors)
    ELSE IF selectors[i].tag = "Semantic"
         THEN IF Identifier_new(rhs).ok
              THEN shr_from([selectors EXCEPT ![i].selector.modifiers =
                                Append(@, Identifier_new(rhs).value)], rhs, i + 1)
              ELSE Panic(UnwrapPanic)
         ELSE Panic("cannot add a modifier to TextMate selector")

shr(selectors, rhs) == shr_from(selectors, rhs, 1)

\* The loop of `bitxor` keeping a language that is already set.
RECURSIVE bitxor_from_keeping_language(_, _, _)
bitxor_from_keeping_language(selectors, rhs, i) ==
    IF i > Len(selectors) THEN Ok(selectors)
    ELSE IF selectors[i].tag = "Semantic"
         THEN IF Identifier_new(rhs).ok
              THEN bitxor_from_keeping_language(
                       [selectors EXCEPT ![i].selector.language =
                           IF @ = None THEN Some(Identifier_new(rhs).value) ELSE @],
                       rhs, i + 1)
              ELSE Panic(UnwrapPanic)
         ELSE Panic("cannot add set language of TextMate selector")

\* The loop of `bitxor` from selector i on.
RECURSIVE bitxor_from(_, _, _)
bitxor_from(selectors, rhs, i) ==
    IF i > Len(selectors) THEN Ok(selectors)
    ELSE IF selectors[i].tag = "Semantic"
         THEN IF Identifier_new(rhs).ok
              THEN bitxor_from([selectors EXCEPT ![i].selector.language =
                                   Some(Identifier_new(rhs).value)], rhs, i + 1)
              ELSE Panic(UnwrapPanic)
         ELSE Panic("cannot add set language of TextMate selector")

bitxor(selectors, rhs) == bitxor_from(selectors, rhs, 1)

(***************************************************************************)
(* src/dsl.rs: the operator | (impl BitOr for Selectors)                   *)
(***************************************************************************)
\* The append skipping the selectors of rhs that self already holds.
RECURSIVE bitor_dedup(_, _)
bitor_dedup(self, rhs) ==
    IF rhs = <<>> THEN self
    ELSE bitor_dedup(IF \E i \in 1..Len(self) : self[i] = Head(rhs)
                     THEN self ELSE Append(self, Head(rhs)),
                     Tail(rhs))

\* `self.0.append(&mut rhs.0); self`
bitor(self, rhs) == self \o rhs

(***************************************************************************)
(* src/dsl.rs: ThemeBuilder::a                                             *)
(***************************************************************************)
\* The scopes of the call last to first.
textmate_scopes_reversed(selectors) ==
    LET tms == SelectSeq(selectors, IsTextMate)
    IN  [i \in 1..Len(tms) |-> tms[Len(tms) + 1 - i].scope]

\* The first loop of `a`: the scopes, and the semantic selectors, of the call.
textmate_scopes(selectors) ==
    LET tms == SelectSeq(selectors, IsTextMate)
    IN  [i \in 1..Len(tms) |-> tms[i].scope]

semantic_selectors(selectors) ==
    LET sems == SelectSeq(selectors, IsSemantic)
    IN  [i \in 1..Len(sems) |-> sems[i].selector]

style_to_textmate_rule_settings(style) ==
    [foreground |-> style.foreground,
     font_style |->
        IF style.font_style # None
        THEN [tag |-> "Set",
              bold |-> style.font_style[1] = "Bold",
              italic |-> style.font_style[1] = "Italic",
              underline |-> style.font_style[1] = "Underline"]
        ELSE [tag |-> "Inherit"]]

\* The push merging into an earlier rule with the same scope list.
push_textmate_rule_merging(rules, selectors, style) ==
    LET scope == textmate_scopes(selectors)
        settings == style_to_textmate_rule_settings(style)
    IN  IF scope = <<>> THEN rules
        ELSE IF \E i \in 1..Len(rules) : rules[i].scope = scope
             THEN [i \in 1..Len(rules) |->
                      IF rules[i].scope = scope
                      THEN [scope |-> scope, settings |-> settings]
                      ELSE rules[i]]
             ELSE Append(rules, [scope |-> scope, settings |-> settings])

\* The push without the test, also of a rule with no scope.
push_textmate_rule_always(rules, selectors, style) ==
    Append(rules, [scope |-> textmate_scopes(selectors),
                   settings |-> style_to_textmate_rule_settings(style)])

\* `if !textmate_scopes.is_empty() { self.textmate_rules.push(..) }`
push_textmate_rule(rules, selectors, style) ==
    IF textmate_scopes(selectors) # <<>>
    THEN Append(rules, [scope |-> textmate_scopes(selectors),
                        settings |-> style_to_textmate_rule_settings(style)])
    ELSE rules

AllInherit == [bold |-> "Inherit", italic |-> "Inherit", underline |-> "Inherit"]

AllFalse == [bold |-> "False", italic |-> "False", underline |-> "False"]

\* The assignment that sets bold next to the chosen axis.
set_axis_true_and_bold(font_style_settings, font_style) ==
    CASE font_style = "Bold" -> [font_style_settings EXCEPT !.bold = "True"]
      [] font_style = "Italic" ->
             [font_style_settings EXCEPT !.italic = "True", !.bold = "True"]
      [] font_style = "Underline" ->
             [font_style_settings EXCEPT !.underline = "True", !.bold = "True"]

\* `*match font_style { Bold => &mut s.bold, .. } = FontStyleSetting::True`
set_axis_true(font_style_settings, font_style) ==
    CASE font_style = "Bold" -> [font_style_settings EXCEPT !.bold = "True"]
      [] font_style = "Italic" -> [font_style_settings EXCEPT !.italic = "True"]
      [] font_style = "Underline" -> [font_style_settings EXCEPT !.underline = "True"]

\* The style of `a` with the axes not chosen set to False.
a_semantic_style_others_false(style) ==
    [foreground |-> style.foreground,
     font_style |->
        IF style.font_style # None
        THEN set_axis_true(AllFalse, style.font_style[1])
        ELSE AllInherit]

\* The style of `a` with the axes of a style without font style set to False.
a_semantic_style_unset_false(style) ==
    [foreground |-> style.foreground,
     font_style |->
        IF style.font_style # None
        THEN set_axis_true(AllInherit, style.font_style[1])
        ELSE AllFalse]

\* `let semantic_style = ..` of ThemeBuilder::a
a_semantic_style(style) ==
    [foreground |-> style.foreground,
     font_style |->
        IF style.font_style # None
        THEN set_axis_true(AllInherit, style.font_style[1])
        ELSE AllInherit]

\* `let semantic_style = ..` of SemanticHighlightingEnabled::add_rule
add_rule_semantic_style(style) ==
    [foreground |-> style.foreground,
     font_style |->
        IF style.font_style # None
        THEN set_axis_true(AllFalse, style.font_style[1])
        ELSE AllInherit]

\* The insertion keeping, field by field, what the new style leaves unset.
RECURSIVE merge_all(_, _, _)
merge_all(map, keys, value) ==
    IF keys = <<>> THEN map
    ELSE LET old == IndexMap_get(map, Head(keys))
             axis(new, prior) == IF new = "Inherit" THEN prior ELSE new
             merged ==
                 IF old = None THEN value
                 ELSE [foreground |->
                          IF value.foreground = None THEN old[1].foreground
                          ELSE value.foreground,
                       font_style |->
                          [bold |-> axis(value.font_style.bold, old[1].font_style.bold),
                           italic |-> axis(value.font_style.italic, old[1].font_style.italic),
                           underline |->
                               axis(value.font_style.underline, old[1].font_style.underline)]]
         IN  merge_all(IndexMap_insert(map, Head(keys), merged), Tail(keys), value)

insert_semantic_rules_merging(rules, selectors, semantic_style) ==
    merge_all(rules, semantic_selectors(selectors), semantic_style)

\* `for selector in semantic_selectors { rules.insert(selector, semantic_style) }`
insert_semantic_rules(rules, selectors, semantic_style) ==
    insert_all(rules, semantic_selectors(selectors), semantic_style)

ThemeBuilder_a(selectors, style) ==
    /\ impl = "ThemeBuilder"
    /\ theme = None
    /\ Len(calls) < MaxCalls
    /\ textmate_rules' = push_textmate_rule(textmate_rules, selectors, style)
    /\ semantic_rules' =
           insert_semantic_rules(semantic_rules, selectors, a_semantic_style(style))
    /\ calls' = Append(calls, [op |-> "a", selectors |-> selectors, style |-> style])
    /\ UNCHANGED <<impl, workbench_rules, theme, fs, input, output>>

(***************************************************************************)
(* src/dsl/semantic_highlighting_typestate.rs:                             *)
(* SemanticHighlightingEnabled::add_rule                                   *)
(***************************************************************************)
add_rule(selectors, style) ==
    /\ impl = "SemanticHighlightingEnabled"
    /\ theme = None
    /\ Len(calls) < MaxCalls
    /\ textmate_rules' = push_textmate_rule(textmate_rules, selectors, style)
    /\ semantic_rules' =
           insert_semantic_rules(semantic_rules, selectors, add_rule_semantic_style(style))
    /\ calls' = Append(calls, [op |-> "a", selectors |-> selectors, style |-> style])
    /\ UNCHANGED <<impl, workbench_rules, theme, fs, input, output>>

(***************************************************************************)
(* src/dsl.rs: ThemeBuilder::w and the function w that starts a key set    *)
(***************************************************************************)
\* pub fn w(selector)
w(selector) == <<selector>>

\* The insertion that removes an existing key and appends it again.
RECURSIVE reinsert_all(_, _, _)
reinsert_all(map, keys, value) ==
    IF keys = <<>> THEN map
    ELSE LET others == SelectSeq(map, LAMBDA e : e.key # Head(keys))
         IN  reinsert_all(Append(others, [key |-> Head(keys), value |-> value]),
                          Tail(keys), value)

w_insert_moving(rules, selector, color) == reinsert_all(rules, selector, color)

\* `for selector in selector.0 { self.workbench_rules.insert(selector, color) }`
w_insert(rules, selector, color) == insert_all(rules, selector, color)

ThemeBuilder_w(selector, color) ==
    /\ theme = None
    /\ Len(calls) < MaxCalls
    /\ workbench_rules' = w_insert(workbench_rules, selector, Color(color))
    /\ calls' = Append(calls, [op |-> "w", selectors |-> selector, color |-> color])
    /\ UNCHANGED <<impl, textmate_rules, semantic_rules, theme, fs, input, output>>

(***************************************************************************)
(* src/dsl.rs: ThemeBuilder::build, which takes the builder by value: no   *)
(* call of `a` or `w` follows it. src/lib.rs: serialize_theme applied to   *)
(* the theme that was built.                                               *)
(***************************************************************************)
\* `build` with highlighting Off for a builder without semantic rules.
build_off_when_empty(self, name) ==
    [name |-> name,
     textmate_rules |-> self.textmate_rules,
     semantic_highlighting |->
        IF self.semantic_rules = <<>> THEN Off ELSE On(self.semantic_rules),
     workbench_rules |-> self.workbench_rules]

\* pub fn build(self, name) -> proto::Theme
build(self, name) ==
    [name |-> name,
     textmate_rules |-> self.textmate_rules,
     semantic_highlighting |-> On(self.semantic_rules),
     workbench_rules |-> self.workbench_rules]

ThemeBuilder_build(name) ==
    /\ theme = None
    /\ theme' = Some(build([textmate_rules |-> textmate_rules,
                            semantic_rules |-> semantic_rules,
                            workbench_rules |-> workbench_rules], name))
    /\ UNCHANGED <<builder_vars, fs, input, output>>

serialize_built_theme ==
    /\ theme # None
    /\ output = None
    /\ output' = Some(serialize_theme(theme[1]))
    /\ UNCHANGED <<builder_vars, theme, fs, input>>

(***************************************************************************)
(* The inputs of the builder calls                                         *)
(***************************************************************************)
\* 0xF92672FF, 0x11111180
Rgbas == {[hi |-> 63782, lo |-> 29439], [hi |-> 4369, lo |-> 4480]}

\* a bare colour, each bare font style, and a colour with a font style
Styles ==
    {Style_from_u32([hi |-> 63782, lo |-> 29439])}
    \cup {Style_from_FontStyle(f) : f \in FontStyle}
    \cup {Style_from_tuple([hi |-> 4369, lo |-> 4480], "Italic")}

\* tm("k"), tm("p")
TmK == tm(<<"k">>)

TmP == tm(<<"p">>)

\* s("v"), s("v") >> "m", s('*') >> "m", s("v") ^ "r": selectors that differ
\* in modifiers only, in kind only and in language only
SemV == s(Specific(Identifier_new(<<"v">>).value))

SemVM == shr(SemV, <<"m">>).value

SemM == shr(s(Wildcard), <<"m">>).value

SemVR == bitxor(SemV, <<"r">>).value

SelectorAtoms == {TmK, TmP, SemV, SemVM, SemM, SemVR}

\* The selector sets given to `a`: single selectors, x | y for scopes in both
\* orders, semantic selectors that differ in modifiers or language only, and
\* both kinds mixed.

SelectorSets ==
    {TmK, SemV,
     TmK \o TmP, TmP \o TmK,
     SemV \o SemVM, SemVM \o SemVR \o SemV,
     TmK \o SemV, SemM \o TmK}

WorkbenchKeys == {w(<<"b">>), w(<<"f">>)}

\* the name given to `build`
ThemeNames == {<<"M", "y">>}

WorkbenchSelectors ==
    WorkbenchKeys \cup {w(<<"b">>) \o w(<<"f">>), w(<<"f">>) \o w(<<"b">>)}


(***************************************************************************)
(* The builder                                                             *)
(***************************************************************************)
\* ThemeBuilder::default()
Init ==
    /\ impl \in {"ThemeBuilder", "SemanticHighlightingEnabled"}
    /\ textmate_rules = <<>>
    /\ semantic_rules = <<>>
    /\ workbench_rules = <<>>
    /\ calls = <<>>
    /\ theme = None
    /\ fs = NoFiles
    /\ input = <<>>
    /\ output = <<>>

Next ==
    \/ \E selectors \in SelectorSets, style \in Styles : ThemeBuilder_a(selectors, style)
    \/ \E selectors \in SelectorSets, style \in Styles : add_rule(selectors, style)
    \/ \E selector \in WorkbenchSelectors, color \in Rgbas : ThemeBuilder_w(selector, color)
    \/ \E name \in ThemeNames : ThemeBuilder_build(name)
    \/ serialize_built_theme

Spec == Init /\ [][Next]_vars

(***************************************************************************)
(* Properties of the builder, under Spec                                   *)
(***************************************************************************)
\* The scopes of the TextMate selectors of a selector set, in order.
RECURSIVE ScopesOf(_)
ScopesOf(sels) ==
    IF sels = <<>> THEN <<>>
    ELSE IF Head(sels).tag = "TextMate"
         THEN <<Head(sels).scope>> \o ScopesOf(Tail(sels))
         ELSE ScopesOf(Tail(sels))

\* The calls of `a` with at least one TextMate selector, in call order.
CallsWithTextMate ==
    SelectSeq(calls, LAMBDA c : c.op = "a" /\ ScopesOf(c.selectors) # <<>>)

OneRulePerCallWithTextMate ==
    /\ Len(textmate_rules) = Len(CallsWithTextMate)
    /\ \A i \in 1..Len(textmate_rules) :
          /\ textmate_rules[i].scope = ScopesOf(CallsWithTextMate[i].selectors)
          /\ textmate_rules[i].settings.foreground = CallsWithTextMate[i].style.foreground

EarlierRulesKept ==
    /\ Len(textmate_rules') >= Len(textmate_rules)
    /\ SubSeq(textmate_rules', 1, Len(textmate_rules)) = textmate_rules

\* C4: TextMate rules are never merged across calls: textmate_rules holds
\* exactly one rule per call with at least one TextMate selector, in call
\* order, also when two calls pass the same scope list, and a call never
\* changes or removes an earlier rule (the old sequence is a prefix of the new).
C4_TextMateRulesNeverMerged ==
    []OneRulePerCallWithTextMate /\ [][EarlierRulesKept]_vars

C4_Witness ==
    /\ Len(calls) = 2
    /\ calls[1].selectors = TmK \o TmP
    /\ calls[2].selectors = TmK \o TmP
    /\ Len(textmate_rules) = 2
    /\ textmate_rules[1].scope = textmate_rules[2].scope
    /\ textmate_rules[1].settings # textmate_rules[2].settings

\* The calls of `a` (or add_rule) that name the semantic selector, by index.
CallsNaming(selector) ==
    {n \in 1..Len(calls) :
        /\ calls[n].op = "a"
        /\ \E j \in 1..Len(calls[n].selectors) :
              calls[n].selectors[j] = Semantic(selector)}

\* The style of the last call that names the semantic selector.
LastStyleFor(selector) ==
    calls[CHOOSE n \in CallsNaming(selector) : \A m \in CallsNaming(selector) : m <= n].style

\* C5: the semantic map is keyed by the full selector (kind, modifiers,
\* language): it holds exactly one entry per distinct selector ever added, and
\* the entry's style is the complete style of the last call that named the
\* selector, foreground and all three axes, with nothing kept from before.
C5_SemanticMapFullOverwrite ==
    LET keys == {semantic_rules[i].key : i \in 1..Len(semantic_rules)}
        named == {sel \in {x[1].selector : x \in SelectorAtoms \ {TmK, TmP}} :
                     CallsNaming(sel) # {}}
    IN  /\ Cardinality(keys) = Len(semantic_rules)
        /\ keys = named
        /\ \A i \in 1..Len(semantic_rules) :
              LET style == LastStyleFor(semantic_rules[i].key)
                  value == semantic_rules[i].value
              IN  /\ value.foreground = style.foreground
                  /\ \A axis \in {"bold", "italic", "underline"} :
                        value.font_style[axis] = "True" <=>
                            style.font_style = Some(CASE axis = "bold" -> "Bold"
                                                      [] axis = "italic" -> "Italic"
                                                      [] axis = "underline" -> "Underline")
                  /\ style.font_style = None => value.font_style = AllInherit

C5_Witness ==
    /\ Len(calls) = 2
    /\ calls[1] = [op |-> "a", selectors |-> SemV \o SemVM,
                   style |-> Style_from_tuple([hi |-> 4369, lo |-> 4480], "Italic")]
    /\ calls[2] = [op |-> "a", selectors |-> SemV,
                   style |-> Style_from_FontStyle("Bold")]
    /\ Len(semantic_rules) = 2
    /\ semantic_rules[1].key = SemV[1].selector
    /\ semantic_rules[1].value.foreground = None
    /\ semantic_rules[1].value.font_style.italic # "True"

\* C6 as stated: a bare font style (no colour) added to a semantic selector
\* gives {foreground: none, chosen axis: True, other two axes: False}.
C6_OtherAxesFalse ==
    \A i \in 1..Len(semantic_rules) :
        LET style == LastStyleFor(semantic_rules[i].key)
            value == semantic_rules[i].value
        IN  (style.foreground = None /\ style.font_style # None) =>
                /\ value.foreground = None
                /\ value.font_style = set_axis_true(AllFalse, style.font_style[1])

\* C6, amended: a bare font style added to a semantic selector gives
\* {foreground: none, chosen axis: True}; the other two axes are False when the
\* rule is added by SemanticHighlightingEnabled::add_rule and Inherit when it
\* is added by ThemeBuilder::a.
C6_OtherAxesFalseOrInherit ==
    \A i \in 1..Len(semantic_rules) :
        LET style == LastStyleFor(semantic_rules[i].key)
            value == semantic_rules[i].value
            others == IF impl = "SemanticHighlightingEnabled" THEN "False" ELSE "Inherit"
            chosen == CASE style.font_style[1] = "Bold" -> "bold"
                        [] style.font_style[1] = "Italic" -> "italic"
                        [] style.font_style[1] = "Underline" -> "underline"
        IN  (style.foreground = None /\ style.font_style # None) =>
                /\ value.foreground = None
                /\ value.font_style[chosen] = "True"
                /\ \A axis \in {"bold", "italic", "underline"} \ {chosen} :
                      value.font_style[axis] = others

C6_Witness ==
    /\ impl = "ThemeBuilder"
    /\ Len(calls) = 1
    /\ calls[1] = [op |-> "a", selectors |-> SemM \o TmK,
                   style |-> Style_from_FontStyle("Underline")]
    /\ semantic_rules[1].value =
           [foreground |-> None,
            font_style |-> [bold |-> "Inherit", italic |-> "Inherit", underline |-> "True"]]

\* C7: a bare colour (a u32, no font style) gives foreground = that colour and
\* no font style: every semantic selector of the call has bold, italic and
\* underline Inherit, and the TextMate rule of the call FontStyle::Inherit.
C7_BareColorLeavesFontStyleUnset ==
    \A rgba \in Rgbas :
        (/\ calls # <<>>
         /\ calls[Len(calls)].op = "a"
         /\ calls[Len(calls)].style = Style_from_u32(rgba)) =>
            LET call == calls[Len(calls)]
                bytes == <<rgba.hi \div 256, rgba.hi % 256, rgba.lo \div 256, rgba.lo % 256>>
                color == [r |-> bytes[1], g |-> bytes[2], b |-> bytes[3], a |-> bytes[4]]
            IN  \A j \in 1..Len(call.selectors) :
                    IF call.selectors[j].tag = "Semantic"
                    THEN IndexMap_get(semantic_rules, call.selectors[j].selector)
                            = Some([foreground |-> Some(color),
                                    font_style |-> [bold |-> "Inherit",
                                                    italic |-> "Inherit",
                                                    underline |-> "Inherit"]])
                    ELSE /\ textmate_rules # <<>>
                         /\ textmate_rules[Len(textmate_rules)].settings
                                = [foreground |-> Some(color),
                                   font_style |-> [tag |-> "Inherit"]]

C7_Witness ==
    /\ Len(calls) = 2
    /\ calls[1].op = "a"
    /\ calls[1].style = Style_from_FontStyle("Bold")
    /\ calls[2] = [op |-> "a", selectors |-> TmK \o SemV,
                   style |-> Style_from_u32([hi |-> 63782, lo |-> 29439])]
    /\ calls[1].selectors = calls[2].selectors
    /\ semantic_rules[1].value.font_style = AllInherit
    /\ textmate_rules[2].settings.font_style = [tag |-> "Inherit"]

\* The (key, colour) pairs given to `w`, over all calls, in order.
RECURSIVE WorkbenchInsertions(_)
WorkbenchInsertions(n) ==
    IF n = 0 THEN <<>>
    ELSE IF calls[n].op = "w"
         THEN WorkbenchInsertions(n - 1)
                  \o [j \in 1..Len(calls[n].selectors) |->
                         [key |-> calls[n].selectors[j], color |-> calls[n].color]]
         ELSE WorkbenchInsertions(n - 1)

EachKeyOnceAtFirstPlaceWithLastColor ==
    LET all == WorkbenchInsertions(Len(calls))
        first == {k \in 1..Len(all) : \A j \in 1..(k - 1) : all[j].key # all[k].key}
        last(key) == CHOOSE k \in 1..Len(all) :
                         /\ all[k].key = key
                         /\ \A j \in (k + 1)..Len(all) : all[j].key # key
        place(k) == Cardinality({j \in first : j <= k})
    IN  /\ Len(workbench_rules) = Cardinality(first)
        /\ \A k \in first :
              /\ workbench_rules[place(k)].key = all[k].key
              /\ workbench_rules[place(k)].value
                     = [r |-> all[last(all[k].key)].color.hi \div 256,
                        g |-> all[last(all[k].key)].color.hi % 256,
                        b |-> all[last(all[k].key)].color.lo \div 256,
                        a |-> all[last(all[k].key)].color.lo % 256]

KeysKeepTheirPlace ==
    /\ Len(workbench_rules') >= Len(workbench_rules)
    /\ \A i \in 1..Len(workbench_rules) : workbench_rules'[i].key = workbench_rules[i].key

\* C9: the UI-colour map holds each key once, at the place of its first
\* insertion, with the colour of the last call (or last occurrence in a call)
\* that named it; re-inserting a key changes only its value, never its place
\* nor the place of another key.
C9_WorkbenchKeysKeepTheirPlace ==
    []EachKeyOnceAtFirstPlaceWithLastColor /\ [][KeysKeepTheirPlace]_vars

C9_Witness ==
    /\ Len(calls) = 2
    /\ calls[1] = [op |-> "w", selectors |-> w(<<"b">>) \o w(<<"f">>),
                   color |-> [hi |-> 63782, lo |-> 29439]]
    /\ calls[2] = [op |-> "w", selectors |-> w(<<"b">>),
                   color |-> [hi |-> 4369, lo |-> 4480]]
    /\ IndexMap_keys(workbench_rules) = <<<<"b">>, <<"f">>>>
    /\ workbench_rules[1].value = [r |-> 17, g |-> 17, b |-> 17, a |-> 128]
    /\ workbench_rules[2].value = [r |-> 249, g |-> 38, b |-> 114, a |-> 255]

\* A sequence without the later occurrences of its elements.
RECURSIVE FirstOccurrences(_)
FirstOccurrences(seq) ==
    IF seq = <<>> THEN <<>>
    ELSE LET front == FirstOccurrences(SubSeq(seq, 1, Len(seq) - 1))
             last == seq[Len(seq)]
         IN  IF \E i \in 1..Len(front) : front[i] = last THEN front
             ELSE Append(front, last)

\* The semantic selectors of a selector set, in order.
RECURSIVE SemanticOf(_)
SemanticOf(sels) ==
    IF sels = <<>> THEN <<>>
    ELSE IF Head(sels).tag = "Semantic"
         THEN <<Head(sels).selector>> \o SemanticOf(Tail(sels))
         ELSE SemanticOf(Tail(sels))

\* The semantic selectors given to `a`, over the first n calls, in order.
RECURSIVE SemanticInsertions(_)
SemanticInsertions(n) ==
    IF n = 0 THEN <<>>
    ELSE IF calls[n].op = "a"
         THEN SemanticInsertions(n - 1) \o SemanticOf(calls[n].selectors)
         ELSE SemanticInsertions(n - 1)

\* the value that the pretty printer wrote into the text of the built theme
BuiltDocument == SelectSeq(output[1], LAMBDA part : part.json = "Struct")[1]

TokenColors == SelectSeq(BuiltDocument.fields, LAMBDA f : f.key = "tokenColors")[1].value.items

SemanticTokenColors ==
    SelectSeq(BuiltDocument.fields, LAMBDA f : f.key = "semanticTokenColors")[1].value.entries

DocumentColors == SelectSeq(BuiltDocument.fields, LAMBDA f : f.key = "colors")[1].value.entries

\* C16: the document follows insertion order and is never sorted: tokenColors
\* holds the scope rules in the order the calls appended them, and the keys
\* of semanticTokenColors and of colors come in the order of their first
\* insertion, also after a key was inserted again.
C16_DocumentInInsertionOrder ==
    (theme # None /\ output # None) =>
        LET semantic_keys == FirstOccurrences(SemanticInsertions(Len(calls)))
            all == WorkbenchInsertions(Len(calls))
            color_keys == FirstOccurrences([k \in 1..Len(all) |-> all[k].key])
        IN  /\ Len(TokenColors) = Len(CallsWithTextMate)
            /\ \A i \in 1..Len(TokenColors) :
                   LET scopes == ScopesOf(CallsWithTextMate[i].selectors)
                   IN  TokenColors[i].fields[1] =
                           Field("scope",
                                 JArray([j \in 1..Len(scopes) |-> JString(scopes[j])]))
            /\ [i \in 1..Len(SemanticTokenColors) |-> SemanticTokenColors[i].key] =
                   [i \in 1..Len(semantic_keys) |-> Selector_serialize(semantic_keys[i])]
            /\ [i \in 1..Len(DocumentColors) |-> DocumentColors[i].key] = color_keys

\* v.m, v:r and v inserted in that order, then v inserted again: the document
\* keeps v.m, v:r, v, which no sorting of the keys gives
C16_Witness ==
    /\ theme # None
    /\ output # None
    /\ Len(calls) = 2
    /\ calls[1].op = "a"
    /\ calls[1].selectors = SemVM \o SemVR \o SemV
    /\ calls[2].op = "a"
    /\ calls[2].selectors = SemV
    /\ [i \in 1..Len(SemanticTokenColors) |-> SemanticTokenColors[i].key] =
           <<<<"v", ".", "m">>, <<"v", ":", "r">>, <<"v">>>>

\* The axis of a TextMate rule's settings is true exactly when the axis of
\* the semantic style is True.
SameChosenAxis(settings, style) ==
    \A axis \in {"bold", "italic", "underline"} :
        (settings.font_style.tag = "Set" /\ settings.font_style[axis])
            <=> style.font_style[axis] = "True"

\* A step that is a call of `a` (or add_rule) partitions the selector set.
APartitionsTheCall ==
    (Len(calls') = Len(calls) + 1 /\ calls'[Len(calls')].op = "a") =>
        LET call == calls'[Len(calls')]
            scopes == ScopesOf(call.selectors)
            semantic == SemanticOf(call.selectors)
            keys == [i \in 1..Len(semantic_rules) |-> semantic_rules[i].key]
            keys_after == [i \in 1..Len(semantic_rules') |-> semantic_rules'[i].key]
            rule == textmate_rules'[Len(textmate_rules')]
        IN  /\ Len(textmate_rules') =
                   Len(textmate_rules) + (IF scopes = <<>> THEN 0 ELSE 1)
            /\ SubSeq(textmate_rules', 1, Len(textmate_rules)) = textmate_rules
            /\ scopes # <<>> =>
                   /\ rule.scope = scopes
                   /\ rule.settings.foreground = call.style.foreground
            /\ keys_after = FirstOccurrences(keys \o semantic)
            /\ \A i \in 1..Len(semantic_rules') :
                   IF \E j \in 1..Len(semantic) : semantic[j] = semantic_rules'[i].key
                   THEN
                       /\ semantic_rules'[i].value.foreground = call.style.foreground

                       /\ call.style.font_style # None =>
                              semantic_rules'[i].value.font_style[
                                  CASE call.style.font_style[1] = "Bold" -> "bold"
                                    [] call.style.font_style[1] = "Italic" -> "italic"
                                    [] call.style.font_style[1] = "Underline" -> "underline"]
                                  = "True"
                       /\ scopes # <<>> =>
                              SameChosenAxis(rule.settings, semantic_rules'[i].value)
                   ELSE semantic_rules'[i] \in
                            {semantic_rules[k] : k \in 1..Len(semantic_rules)}

\* C21: one call of `a` with a mixed selector set partitions it: the TextMate
\* scopes of the call, in their order in the call, become the scope list of
\* exactly one new rule (none when the call has no TextMate selector), each
\* semantic selector of the call is set, in call order, in the semantic map,
\* and the rule and every semantic entry of the call carry the same
\* foreground and the same chosen font-style axis.
C21_APartitionsTheCall == [][APartitionsTheCall]_vars

\* a scope and a semantic selector in one call, with a colour and italic
C21_Witness ==
    /\ Len(calls) = 1
    /\ calls[1] = [op |-> "a", selectors |-> TmK \o SemV,
                   style |-> Style_from_tuple([hi |-> 4369, lo |-> 4480], "Italic")]
    /\ Len(textmate_rules) = 1
    /\ textmate_rules[1].scope = <<<<"k">>>>
    /\ textmate_rules[1].settings.font_style.italic
    /\ Len(semantic_rules) = 1
    /\ semantic_rules[1].key = SemV[1].selector
    /\ semantic_rules[1].value.font_style.italic = "True"
    /\ semantic_rules[1].value.foreground = textmate_rules[1].settings.foreground
    /\ semantic_rules[1].value.foreground # None

\* C24: in every state that calls of `a` reach, every style of the semantic
\* map has at most one of bold, italic, underline True and every TextMate
\* rule at most one of its three axes true; two calls naming different axes
\* for one semantic selector leave only the axis of the last call True.
C24_AtMostOneAxis ==
    /\ \A i \in 1..Len(semantic_rules) :
           Cardinality({axis \in {"bold", "italic", "underline"} :
                           semantic_rules[i].value.font_style[axis] = "True"}) <= 1
    /\ \A i \in 1..Len(textmate_rules) :
           textmate_rules[i].settings.font_style.tag = "Set" =>
               Cardinality({axis \in {"bold", "italic", "underline"} :
                               textmate_rules[i].settings.font_style[axis]}) <= 1

\* bold, then underline, for the same selector: underline alone is True
C24_Witness ==
    /\ Len(calls) = 2
    /\ calls[1] = [op |-> "a", selectors |-> TmK \o SemV,
                   style |-> Style_from_FontStyle("Bold")]
    /\ calls[2] = [op |-> "a", selectors |-> TmK \o SemV,
                   style |-> Style_from_FontStyle("Underline")]
    /\ Len(semantic_rules) = 1
    /\ semantic_rules[1].value.font_style.underline = "True"
    /\ semantic_rules[1].value.font_style.bold # "True"
    /\ textmate_rules[2].settings.font_style =
           [tag |-> "Set", bold |-> FALSE, italic |-> FALSE, underline |-> TRUE]

\* A step that is a call leaves alone the parts the call is not about.
OtherPartsUnchanged ==
    (Len(calls') = Len(calls) + 1) =>
        LET call == calls'[Len(calls')]
        IN  /\ call.op = "a" =>
                   /\ workbench_rules' = workbench_rules
                   /\ ScopesOf(call.selectors) = <<>> => textmate_rules' = textmate_rules
                   /\ SemanticOf(call.selectors) = <<>> => semantic_rules' = semantic_rules
            /\ call.op = "w" =>
                   /\ textmate_rules' = textmate_rules
                   /\ semantic_rules' = semantic_rules

\* C26: the three parts of the accumulator are independent: `a` leaves
\* workbench_rules unchanged, `w` leaves textmate_rules and semantic_rules
\* unchanged, a call of `a` with no TextMate selector leaves textmate_rules
\* unchanged and one with no semantic selector leaves semantic_rules unchanged.
C26_PartsIndependent == [][OtherPartsUnchanged]_vars

\* a semantic-only call after a call of `w`: colours kept, no scope rule
C26_Witness ==
    /\ Len(calls) = 2
    /\ calls[1].op = "w"
    /\ calls[2].op = "a"
    /\ calls[2].selectors = SemV \o SemVM
    /\ textmate_rules = <<>>
    /\ Len(semantic_rules) = 2
    /\ Len(workbench_rules) = Len(calls[1].selectors)

(***************************************************************************)
(* The functions of the library applied to one input each: the state is    *)
(* the call [fn, arg] and, once the function has run, what it returned.    *)
(***************************************************************************)
\* The texts of at most n characters of the set chars.
Texts(chars, n) == UNION {[1..k -> chars] : k \in 0..n}

\* a letter of each case, a digit, the hyphen, and characters that are neither
Chars == {"a", "Z", "7", "-", ".", ":", "*", " "}

IdentifierTexts == Texts(Chars, MaxIdLen)

\* 0x00, 0x09, 0x0A, 0x26, 0x72, 0xF9, 0xFF
Bytes == {0, 9, 10, 38, 114, 249, 255}

Colors == [r : Bytes, g : Bytes, b : Bytes, a : Bytes]

\* valid identifiers, the empty one among them
Identifiers == {<<>>, <<"a">>, <<"Z", "-">>}

Variable == <<"v", "a", "r", "i", "a", "b", "l", "e">>

Declaration == <<"d", "e", "c", "l", "a", "r", "a", "t", "i", "o", "n">>

Static == <<"s", "t", "a", "t", "i", "c">>

Mutable == <<"m", "u", "t", "a", "b", "l", "e">>

\* {variable, [declaration, static], none} and {Wildcard, [mutable], none}
VariableDeclarationStatic ==
    [kind |-> Specific(Variable), modifiers |-> <<Declaration, Static>>, language |-> None]

WildcardMutable ==
    [kind |-> Wildcard, modifiers |-> <<Mutable>>, language |-> None]

Selectors ==
    [kind : {Wildcard} \cup {Specific(id) : id \in Identifiers},
     modifiers : Texts(Identifiers, MaxModifiers),
     language : {None} \cup {Some(id) : id \in Identifiers}]
    \cup {VariableDeclarationStatic, WildcardMutable}

RECURSIVE Concat(_)
Concat(seqs) == IF seqs = <<>> THEN <<>> ELSE Head(seqs) \o Concat(Tail(seqs))

\* the selector sets of 1..MaxSelectors selectors: x, x | y, x | y | z
OperandSets == {Concat(xs) : xs \in Texts(SelectorAtoms, MaxSelectors)} \ {<<>>}

\* right-hand sides of >> and ^: valid identifiers and an invalid one
Operands == {<<"m">>, <<"r", "-">>, <<"a", ".">>}

\* Option<Color> of a rule: none, an opaque colour, a translucent colour
Foregrounds == {None, Some(Color([hi |-> 63782, lo |-> 29439])),
                Some(Color([hi |-> 4369, lo |-> 4480]))}

\* every textmate::RuleSettings over those colours
RuleSettingsInputs ==
    [foreground : Foregrounds,
     font_style : {[tag |-> "Inherit"]}
                  \cup [tag : {"Set"}, bold : BOOLEAN, italic : BOOLEAN,
                        underline : BOOLEAN]]

FontStyleSettings == {"True", "False", "Inherit"}

\* every semantic::Style over those colours
SemanticStyles ==
    [foreground : Foregrounds,
     font_style : [bold : FontStyleSettings, italic : FontStyleSettings,
                   underline : FontStyleSettings]]

\* every style.rs Style over two colours, in a scope rule and in a semantic rule
LegacyStyles ==
    [color : {None, Some([hex |-> 40155, alpha |-> None]),
              Some([hex |-> 16376656, alpha |-> Some(9)])},
     font_style : {None} \cup {Some(f) : f \in {"Bold", "Italic", "BoldItalic",
                                                "Underline", "Inherit"}}]

KeywordRule ==
    [scope |-> <<<<"k">>, <<"p">>>>,
     settings |-> [foreground |-> Some(Color([hi |-> 63782, lo |-> 29439])),
                   font_style |-> [tag |-> "Inherit"]]]

CommentRule ==
    [scope |-> <<<<"c">>>>,
     settings |-> [foreground |-> None,
                   font_style |-> [tag |-> "Set", bold |-> FALSE, italic |-> TRUE,
                                   underline |-> FALSE]]]

VariableStyle ==
    [foreground |-> Some(Color([hi |-> 4369, lo |-> 4480])),
     font_style |-> [bold |-> "Inherit", italic |-> "True", underline |-> "Inherit"]]

\* themes as `build`, a typestate's into_proto or a caller can make them
Themes ==
    [name : {<<>>, <<"M", "y">>},
     textmate_rules : {<<>>, <<KeywordRule>>, <<CommentRule, KeywordRule>>},
     semantic_highlighting :
        {Off, On(<<>>),
         On(<<[key |-> VariableDeclarationStatic, value |-> VariableStyle]>>),
         On(<<[key |-> WildcardMutable, value |-> VariableStyle],
              [key |-> VariableDeclarationStatic, value |-> VariableStyle]>>)},
     workbench_rules :
        {<<>>,
         <<[key |-> <<"f">>, value |-> Color([hi |-> 63782, lo |-> 29439])],
           [key |-> <<"b">>, value |-> Color([hi |-> 4369, lo |-> 4480])]>>}]

\* builders as calls of `a` and `w` leave them, the fresh one among them
Builders ==
    [textmate_rules : {<<>>, <<KeywordRule>>, <<CommentRule, KeywordRule>>},
     semantic_rules :
        {<<>>,
         <<[key |-> VariableDeclarationStatic, value |-> VariableStyle]>>,
         <<[key |-> WildcardMutable, value |-> VariableStyle],
           [key |-> VariableDeclarationStatic, value |-> VariableStyle]>>},
     workbench_rules :
        {<<>>,
         <<[key |-> <<"f">>, value |-> Color([hi |-> 63782, lo |-> 29439])],
           [key |-> <<"b">>, value |-> Color([hi |-> 4369, lo |-> 4480])]>>}]

\* names given to `build`
BuiltNames == {<<>>, <<"M", "y">>, <<"c", "o", "o", "l">>}

\* 16-bit halves of the colours given as u32: 0x0000, 0x0001, 0x00FF, 0x0100,
\* 0x1111, 0x1180, 0x72FF, 0x7FFF, 0x8000, 0xF926, 0xFFFF
Halves == {0, 1, 255, 256, 4369, 4480, 29439, 32767, 32768, 63782, 65535}

U32s == [hi : Halves, lo : Halves]

\* operands of |: one selector set of one or two selectors each
BitOrOperands == {TmK, TmP, SemV, SemVM, TmK \o TmK, SemV \o TmP, SemVM \o SemV}

\* languages given to ^ one after the other
Languages == {<<"r">>, <<"c", "-">>}

FnInputs ==
    {[fn |-> "Identifier::new", arg |-> str] : str \in IdentifierTexts}
    \cup {[fn |-> "Color::serialize", arg |-> color] : color \in Colors}
    \cup {[fn |-> "Selector::serialize", arg |-> sel] : sel \in Selectors}
    \cup {[fn |-> op, arg |-> [selectors |-> set, rhs |-> rhs]] :
             op \in {"shr", "bitxor"}, set \in OperandSets, rhs \in Operands}
    \cup {[fn |-> "RuleSettings::serialize", arg |-> settings] :
             settings \in RuleSettingsInputs}
    \cup {[fn |-> "Style::serialize", arg |-> style] : style \in SemanticStyles}
    \cup {[fn |-> "Style::as_json_value",
           arg |-> [self |-> style, in_textmate_rule |-> in_textmate_rule]] :
             style \in LegacyStyles, in_textmate_rule \in BOOLEAN}
    \cup {[fn |-> "serialize_theme", arg |-> t] : t \in Themes}
    \cup {[fn |-> "Style::from(u32)", arg |-> rgba] : rgba \in U32s}
    \cup {[fn |-> "Style::from((u32, FontStyle))",
           arg |-> [rgba |-> rgba, font_style |-> "Bold"]] : rgba \in U32s}
    \cup {[fn |-> "ThemeBuilder::w",
           arg |-> [selector |-> w(<<"b">>) \o w(<<"f">>), color |-> rgba]] :
             rgba \in U32s}
    \cup {[fn |-> "build", arg |-> [self |-> builder, name |-> name]] :

             builder \in Builders, name \in BuiltNames}
    \cup {[fn |-> "bitor", arg |-> [a |-> a, b |-> b, c |-> c]] :

             a \in BitOrOperands, b \in BitOrOperands, c \in BitOrOperands}
    \cup {[fn |-> "bitxor bitxor",
           arg |-> [selectors |-> set, first |-> first, second |-> second]] :
             set \in OperandSets, first \in Languages, second \in Languages}

FnInit ==
    /\ impl = "ThemeBuilder"
    /\ textmate_rules = <<>>
    /\ semantic_rules = <<>>
    /\ workbench_rules = <<>>
    /\ calls = <<>>
    /\ theme = None
    /\ fs = NoFiles
    /\ input \in FnInputs
    /\ output = None

call_Identifier_new ==
    /\ input.fn = "Identifier::new"
    /\ output = None
    /\ output' = Some(Identifier_new(input.arg))
    /\ UNCHANGED <<builder_vars, theme, fs, input>>

call_Color_serialize ==
    /\ input.fn = "Color::serialize"
    /\ output = None
    /\ output' = Some(Color_serialize(input.arg))
    /\ UNCHANGED <<builder_vars, theme, fs, input>>

call_Selector_serialize ==
    /\ input.fn = "Selector::serialize"
    /\ output = None
    /\ output' = Some(Selector_serialize(input.arg))
    /\ UNCHANGED <<builder_vars, theme, fs, input>>

call_shr ==
    /\ input.fn = "shr"
    /\ output = None
    /\ output' = Some(shr(input.arg.selectors, input.arg.rhs))
    /\ UNCHANGED <<builder_vars, theme, fs, input>>

call_bitxor ==
    /\ input.fn = "bitxor"
    /\ output = None
    /\ output' = Some(bitxor(input.arg.selectors, input.arg.rhs))
    /\ UNCHANGED <<builder_vars, theme, fs, input>>

\* a | b, then (a | b) | c next to a | (b | c)
call_bitor ==
    /\ input.fn = "bitor"
    /\ output = None
    /\ output' = Some([ab |-> bitor(input.arg.a, input.arg.b),
                       ab_c |-> bitor(bitor(input.arg.a, input.arg.b), input.arg.c),
                       a_bc |-> bitor(input.arg.a, bitor(input.arg.b, input.arg.c))])
    /\ UNCHANGED <<builder_vars, theme, fs, input>>

\* selectors ^ first ^ second: the second ^ runs unless the first panicked
call_bitxor_bitxor ==
    /\ input.fn = "bitxor bitxor"
    /\ output = None
    /\ output' = Some(LET once == bitxor(input.arg.selectors, input.arg.first)
                      IN  IF once.ok THEN bitxor(once.value, input.arg.second)
                          ELSE once)
    /\ UNCHANGED <<builder_vars, theme, fs, input>>

call_RuleSettings_serialize ==
    /\ input.fn = "RuleSettings::serialize"
    /\ output = None
    /\ output' = Some(RuleSettings_serialize(input.arg))
    /\ UNCHANGED <<builder_vars, theme, fs, input>>

call_Style_serialize ==
    /\ input.fn = "Style::serialize"
    /\ output = None
    /\ output' = Some(Style_serialize(input.arg))
    /\ UNCHANGED <<builder_vars, theme, fs, input>>

call_Style_as_json_value ==
    /\ input.fn = "Style::as_json_value"
    /\ output = None
    /\ output' = Some(Style_as_json_value(input.arg.self, input.arg.in_textmate_rule))
    /\ UNCHANGED <<builder_vars, theme, fs, input>>

call_serialize_theme ==
    /\ input.fn = "serialize_theme"
    /\ output = None
    /\ output' = Some(serialize_theme(input.arg))
    /\ UNCHANGED <<builder_vars, theme, fs, input>>

call_build ==
    /\ input.fn = "build"
    /\ output = None
    /\ output' = Some(build(input.arg.self, input.arg.name))
    /\ UNCHANGED <<builder_vars, theme, fs, input>>

call_Style_from_u32 ==
    /\ input.fn = "Style::from(u32)"
    /\ output = None
    /\ output' = Some(Style_from_u32(input.arg))
    /\ UNCHANGED <<builder_vars, theme, fs, input>>

call_Style_from_tuple ==
    /\ input.fn = "Style::from((u32, FontStyle))"
    /\ output = None
    /\ output' = Some(Style_from_tuple(input.arg.rgba, input.arg.font_style))
    /\ UNCHANGED <<builder_vars, theme, fs, input>>

\* `w` on a fresh builder: what workbench_rules holds after the call
call_ThemeBuilder_w ==
    /\ input.fn = "ThemeBuilder::w"
    /\ output = None
    /\ output' = Some(w_insert(<<>>, input.arg.selector, Color(input.arg.color)))
    /\ UNCHANGED <<builder_vars, theme, fs, input>>

FnNext ==
    \/ call_Style_from_u32
    \/ call_Style_from_tuple
    \/ call_ThemeBuilder_w
    \/ call_build
    \/ call_RuleSettings_serialize
    \/ call_Style_serialize
    \/ call_Style_as_json_value
    \/ call_serialize_theme
    \/ call_bitor
    \/ call_bitxor_bitxor
    \/ call_Identifier_new
    \/ call_Color_serialize
    \/ call_Selector_serialize
    \/ call_shr
    \/ call_bitxor

SpecFn == FnInit /\ [][FnNext]_vars

(***************************************************************************)
(* Properties of the functions, under SpecFn                               *)
(***************************************************************************)
Returned(fn) == input.fn = fn /\ output # None

\* C1: Identifier::new(s) succeeds if and only if every character of s is an
\* ASCII letter, an ASCII digit or '-' (the empty text included), and on
\* success the identifier's text, as kind, modifier and language of an encoded
\* selector, is exactly s.
C1_IdentifierAcceptedIffValid ==
    Returned("Identifier::new") =>
        LET str == input.arg
            result == output[1]
            valid == \A i \in 1..Len(str) :
                         str[i] \in AsciiLowercase \cup AsciiUppercase \cup AsciiDigit \cup {"-"}
        IN  /\ result.ok <=> valid
            /\ result.ok =>
                  /\ result.value = str
                  /\ Selector_serialize([kind |-> Specific(result.value),
                                         modifiers |-> <<>>, language |-> None]) = str
                  /\ Selector_serialize([kind |-> Wildcard,
                                         modifiers |-> <<result.value>>,
                                         language |-> Some(result.value)])
                         = <<"*", ".">> \o str \o <<":">> \o str

C1_Witness ==
    /\ Returned("Identifier::new")
    /\ input.arg = <<"Z", "-">>
    /\ output[1].ok

\* C2: for a text with at least one character that is neither an ASCII
\* alphanumeric nor '-', Identifier::new returns an error, no identifier, and
\* the error message contains the whole input text.
C2_InvalidRejectedNamingInput ==
    (/\ Returned("Identifier::new")
     /\ \E i \in 1..Len(input.arg) :
            ~is_ascii_alphanumeric(input.arg[i]) /\ input.arg[i] # "-") =>
        LET str == input.arg
            result == output[1]
        IN  /\ ~result.ok
            /\ DOMAIN result = {"ok", "error"}
            /\ \E k \in 0..(Len(result.error) - Len(str)) :
                   SubSeq(result.error, k + 1, k + Len(str)) = str

C2_Witness ==
    /\ Returned("Identifier::new")
    /\ input.arg = <<".", "a">>
    /\ ~output[1].ok

\* C3: a semantic selector serializes to kind, then "." and the modifier for
\* each modifier in stored order with duplicates kept, then ":" and the
\* language when one is set; kind is "*" for Wildcard and the identifier's
\* text for Specific. {variable, [declaration, static], none} gives
\* "variable.declaration.static" and {Wildcard, [mutable], none} "*.mutable".
C3_SelectorEncoding ==
    Returned("Selector::serialize") =>
        LET sel == input.arg
            kind == IF sel.kind = Wildcard THEN <<"*">> ELSE sel.kind.id
            dotted == Concat([i \in 1..Len(sel.modifiers) |-> <<".">> \o sel.modifiers[i]])
            language == IF sel.language = None THEN <<>> ELSE <<":">> \o sel.language[1]
        IN  /\ output[1] = kind \o dotted \o language
            /\ sel = VariableDeclarationStatic =>
                   output[1] = Variable \o <<".">> \o Declaration \o <<".">> \o Static
            /\ sel = WildcardMutable =>
                   output[1] = <<"*", ".", "m", "u", "t", "a", "b", "l", "e">>

C3_Witness ==
    /\ Returned("Selector::serialize")
    /\ input.arg = [kind |-> Specific(<<"a">>),
                    modifiers |-> <<<<"Z", "-">>, <<"Z", "-">>>>,
                    language |-> Some(<<"a">>)]
    /\ output[1] = <<"a", ".", "Z", "-", ".", "Z", "-", ":", "a">>

\* C8 as stated: every colour, alpha 0xFF included, serializes to "#RRGGBBAA":
\* '#' and eight uppercase hexadecimal digits, two for each of r, g, b, a.
C8_AlwaysEightDigits ==
    Returned("Color::serialize") =>
        LET color == input.arg
            text == output[1]
            value(digit) == CHOOSE n \in 0..15 : HexDigits[n + 1] = digit
            byte(k) == 16 * value(text[2 * k]) + value(text[2 * k + 1])
        IN  /\ Len(text) = 9
            /\ text[1] = "#"
            /\ \A i \in 2..9 : \E n \in 0..15 : HexDigits[n + 1] = text[i]
            /\ <<byte(1), byte(2), byte(3), byte(4)>> = <<color.r, color.g, color.b, color.a>>

\* C8, amended: a colour serializes to '#' and uppercase hexadecimal digits,
\* two for each channel: "#RRGGBBAA" when alpha is not 0xFF and "#RRGGBB",
\* without the alpha, when alpha is 0xFF; 0xF92672FF gives "#F92672".
C8_EightDigitsUnlessOpaque ==
    Returned("Color::serialize") =>
        LET color == input.arg
            text == output[1]
            value(digit) == CHOOSE n \in 0..15 : HexDigits[n + 1] = digit
            byte(k) == 16 * value(text[2 * k]) + value(text[2 * k + 1])
        IN  /\ Len(text) = IF color.a = 255 THEN 7 ELSE 9
            /\ text[1] = "#"
            /\ \A i \in 2..Len(text) : \E n \in 0..15 : HexDigits[n + 1] = text[i]
            /\ <<byte(1), byte(2), byte(3)>> = <<color.r, color.g, color.b>>
            /\ color.a # 255 => byte(4) = color.a
            /\ color = [r |-> 249, g |-> 38, b |-> 114, a |-> 255] =>
                   text = <<"#", "F", "9", "2", "6", "7", "2">>

C8_Witness ==
    /\ Returned("Color::serialize")
    /\ input.arg = [r |-> 249, g |-> 38, b |-> 114, a |-> 255]
    /\ Len(output[1]) = 7

\* C10: >> or ^ applied to a selector set with at least one TextMate selector,
\* at any position, panics and yields no selector set.
C10_OperatorsPanicOnTextMate ==
    (/\ Returned("shr") \/ Returned("bitxor")
     /\ \E i \in 1..Len(input.arg.selectors) : input.arg.selectors[i].tag = "TextMate") =>
        /\ ~output[1].ok
        /\ DOMAIN output[1] = {"ok", "panic"}

C10_Witness ==
    /\ Returned("shr")
    /\ input.arg.selectors = SemV \o SemM \o TmK
    /\ input.arg.rhs = <<"m">>
    /\ output[1] = Panic("cannot add a modifier to TextMate selector")


AllSemantic(selectors) == \A i \in 1..Len(selectors) : IsSemantic(selectors[i])

\* C11: a | b holds the selectors of a in their order followed by the
\* selectors of b in their order, every duplicate kept, whatever mix of
\* TextMate and semantic selectors the operands hold; and | is associative:
\* (a | b) | c is a | (b | c).
C11_BitOrConcatenates ==
    Returned("bitor") =>
        LET a == input.arg.a
            b == input.arg.b
            ab == output[1].ab
        IN  /\ Len(ab) = Len(a) + Len(b)
            /\ \A i \in 1..Len(a) : ab[i] = a[i]
            /\ \A j \in 1..Len(b) : ab[Len(a) + j] = b[j]
            /\ output[1].ab_c = output[1].a_bc

\* a | b where b repeats a selector of a, and a and b mix both kinds
C11_Witness ==
    /\ Returned("bitor")
    /\ input.arg.a = SemV \o TmP
    /\ input.arg.b = SemVM \o SemV
    /\ input.arg.c = TmK \o TmK
    /\ output[1].ab = SemV \o TmP \o SemVM \o SemV

\* C19: selectors ^ l1 ^ l2 on semantic selectors leaves every selector with
\* the language l2, its kind and modifiers as they were, and is the set that
\* selectors ^ l2 alone gives; a selector never holds more than one language.
C19_LanguageLastWriteWins ==
    (Returned("bitxor bitxor") /\ AllSemantic(input.arg.selectors)) =>
        LET before == input.arg.selectors
            result == output[1]
        IN  /\ result.ok
            /\ Len(result.value) = Len(before)
            /\ \A i \in 1..Len(before) :
                   /\ result.value[i].tag = "Semantic"
                   /\ result.value[i].selector.language = <<input.arg.second>>
                   /\ result.value[i].selector.kind = before[i].selector.kind
                   /\ result.value[i].selector.modifiers = before[i].selector.modifiers
            /\ result = bitxor(before, input.arg.second)

\* two different languages in turn, on a set with a selector that had none
C19_Witness ==
    /\ Returned("bitxor bitxor")
    /\ input.arg.selectors = SemVM \o SemV
    /\ input.arg.first = <<"r">>
    /\ input.arg.second = <<"c", "-">>
    /\ output[1].ok
    /\ output[1].value[2].selector.language = Some(<<"c", "-">>)

(***************************************************************************)
(* src/lib.rs: save_theme and prepare_themes_dir. The file system is the   *)
(* entry `themes` of the working directory ("absent", "dir", "file", or    *)
(* "dangling": a symbolic link to nothing, for which exists() is false and *)
(* create_dir fails) and the files written, each a path with its content.  *)
(* A path is absolute or relative with its components.                     *)
(***************************************************************************)
RECURSIVE Path_components(_, _)
Path_components(text, component) ==
    IF text = <<>>
    THEN IF component = <<>> THEN <<>> ELSE <<component>>
    ELSE IF Head(text) = "/"
         THEN (IF component = <<>> THEN <<>> ELSE <<component>>)
              \o Path_components(Tail(text), <<>>)
         ELSE Path_components(Tail(text), Append(component, Head(text)))

\* Path::new(text)
Path_new(text) ==
    [absolute |-> text # <<>> /\ Head(text) = "/",
     components |-> Path_components(text, <<>>)]

\* Path::join(text): an absolute path replaces self, a relative one extends it
Path_join(self, text) ==
    IF Path_new(text).absolute
    THEN Path_new(text)
    ELSE [self EXCEPT !.components = @ \o Path_new(text).components]

\* Path::new("themes")
ThemesDir == Path_new(<<"t", "h", "e", "m", "e", "s">>)

\* format!("{}-color-theme.json", name)
theme_file_name(name) ==
    name \o <<"-", "c", "o", "l", "o", "r", "-", "t", "h", "e", "m", "e",
              ".", "j", "s", "o", "n">>

\* The directory of a path is there: the working directory, the root, or
\* themes/ when it is a directory.
parent_is_dir(files, path) ==
    LET parent == SubSeq(path.components, 1, Len(path.components) - 1)
    IN  \/ parent = <<>>
        \/ /\ ~path.absolute
           /\ parent = ThemesDir.components
           /\ files.themes = "dir"

\* fs::write(path, content): the file is created or replaced, or the write
\* fails (no directory to write into, or an error of the system: succeeds is
\* FALSE) and the files are as they were
fs_write(files, path, content, succeeds) ==
    IF succeeds /\ path.components # <<>> /\ parent_is_dir(files, path)
    THEN [ok |-> TRUE,
          fs |-> [files EXCEPT !.files =
                     {f \in @ : f.path # path}
                     \cup {[path |-> path, content |-> content]}]]
    ELSE [ok |-> FALSE, fs |-> files]

\* prepare_themes_dir: create_dir fails on an entry that is there, or by an
\* error of the system (succeeds is FALSE)
prepare_themes_dir(files, succeeds) ==
    IF files.themes \in {"absent", "dangling"}
    THEN IF succeeds /\ files.themes = "absent"
         THEN [result |-> Ok(ThemesDir), fs |-> [files EXCEPT !.themes = "dir"]]
         ELSE [result |-> Err([tag |-> "CreateThemesDir"]), fs |-> files]
    ELSE IF files.themes # "dir"
         THEN [result |-> Err([tag |-> "ThemesDirIsNotDir"]), fs |-> files]
         ELSE [result |-> Ok(ThemesDir), fs |-> files]

save_theme_result(files, t, create_dir_succeeds, write_succeeds) ==
    LET prepared == prepare_themes_dir(files, create_dir_succeeds)
    IN  IF ~prepared.result.ok THEN prepared
        ELSE LET theme_path == Path_join(prepared.result.value, theme_file_name(t.name))
                 written == fs_write(prepared.fs, theme_path, serialize_theme(t),
                                     write_succeeds)
             IN  IF written.ok
                 THEN [result |-> Ok("()"), fs |-> written.fs]
                 ELSE [result |-> Err([tag |-> "WriteTheme", path |-> theme_path]),
                       fs |-> written.fs]

save_theme(create_dir_succeeds, write_succeeds) ==
    /\ input.fn = "save_theme"
    /\ output = None
    /\ output' = Some(save_theme_result(fs, theme[1], create_dir_succeeds,
                                        write_succeeds).result)
    /\ fs' = save_theme_result(fs, theme[1], create_dir_succeeds, write_succeeds).fs
    /\ UNCHANGED <<builder_vars, theme, input>>

\* theme names: a plain one, the empty one, one with a directory in it and
\* one that starts at the root
SavedNames == {<<"M", "y">>, <<>>, <<"a", "/", "b">>, <<"/", "x">>}

SavedThemes ==
    [name : SavedNames,
     textmate_rules : {<<>>, <<KeywordRule>>},
     semantic_highlighting :
        {Off, On(<<[key |-> VariableDeclarationStatic, value |-> VariableStyle]>>)},
     workbench_rules : {<<>>}]

\* the file of an earlier save of the theme "My", about to be replaced
EarlierFile ==
    [path |-> [absolute |-> FALSE,
               components |-> <<<<"t", "h", "e", "m", "e", "s">>,
                                theme_file_name(<<"M", "y">>)>>],
     content |-> <<>>]

FileSystems ==
    {[themes |-> entry, files |-> {}] : entry \in {"absent", "dir", "file", "dangling"}}
    \cup {[themes |-> "dir", files |-> {EarlierFile}]}

\* the call save_theme(&theme) in a working directory
SaveInit ==
    /\ impl = "ThemeBuilder"
    /\ textmate_rules = <<>>
    /\ semantic_rules = <<>>
    /\ workbench_rules = <<>>
    /\ calls = <<>>
    /\ theme \in {Some(t) : t \in SavedThemes}
    /\ fs \in FileSystems
    /\ input = [fn |-> "save_theme", arg |-> theme[1], before |-> fs]
    /\ output = None

SaveNext ==
    \E create_dir_succeeds \in BOOLEAN, write_succeeds \in BOOLEAN :
        save_theme(create_dir_succeeds, write_succeeds)

SpecSave == SaveInit /\ [][SaveNext]_vars

(***************************************************************************)
(* Properties of the serializers, under SpecFn                             *)
(***************************************************************************)
FieldsNamed(struct, key) == SelectSeq(struct.fields, LAMBDA f : f.key = key)

ItalicWord == <<"i", "t", "a", "l", "i", "c">>

BoldWord == <<"b", "o", "l", "d">>

UnderlineWord == <<"u", "n", "d", "e", "r", "l", "i", "n", "e">>

\* the font style string of each combination with a true axis
ItalicBoldUnderline(italic, bold, underline) ==
    CASE italic /\ ~bold /\ ~underline -> ItalicWord
      [] ~italic /\ bold /\ ~underline -> BoldWord
      [] ~italic /\ ~bold /\ underline -> UnderlineWord
      [] italic /\ bold /\ ~underline -> ItalicWord \o <<" ">> \o BoldWord
      [] italic /\ ~bold /\ underline -> ItalicWord \o <<" ">> \o UnderlineWord
      [] ~italic /\ bold /\ underline -> BoldWord \o <<" ">> \o UnderlineWord
      [] italic /\ bold /\ underline ->
             ItalicWord \o <<" ">> \o BoldWord \o <<" ">> \o UnderlineWord

\* C12: in the settings object of a scope rule the font style is one string
\* naming the axes that are true, separated by one space, always in the order
\* italic, bold, underline: "bold" for bold alone, "italic bold" for italic
\* and bold, "italic bold underline" for all three. This holds of
\* RuleSettings' serializer and fails of style.rs, where
\* FontStyle::BoldItalic becomes "bold italic".
C12_FontStyleItalicBoldUnderline ==
    /\ (/\ Returned("RuleSettings::serialize")
        /\ input.arg.font_style.tag = "Set"
        /\ \/ input.arg.font_style.italic
           \/ input.arg.font_style.bold
           \/ input.arg.font_style.underline)
       => FieldsNamed(output[1], "fontStyle") =
              <<Field("fontStyle",
                      JString(ItalicBoldUnderline(input.arg.font_style.italic,
                                                  input.arg.font_style.bold,
                                                  input.arg.font_style.underline)))>>
    /\ (/\ Returned("Style::as_json_value")
        /\ input.arg.in_textmate_rule
        /\ input.arg.self.font_style # None
        /\ input.arg.self.font_style # Some("Inherit"))
       => LET f == input.arg.self.font_style[1]
          IN  FieldsNamed(output[1], "fontStyle") =
                  <<Field("fontStyle",
                          JString(ItalicBoldUnderline(f \in {"Italic", "BoldItalic"},
                                                      f \in {"Bold", "BoldItalic"},
                                                      f = "Underline")))>>

\* C13 as stated: the settings object of a scope rule has no fontStyle key
\* whenever no axis is true, be the font style unset or set with bold, italic
\* and underline all false; an empty fontStyle string is never emitted.
C13_FontStyleOmittedWhenNoAxisTrue ==
    /\ Returned("RuleSettings::serialize") =>
           /\ (\/ input.arg.font_style.tag = "Inherit"
               \/ /\ ~input.arg.font_style.italic
                  /\ ~input.arg.font_style.bold
                  /\ ~input.arg.font_style.underline)
              => FieldsNamed(output[1], "fontStyle") = <<>>
           /\ FieldsNamed(output[1], "fontStyle") # <<Field("fontStyle", JString(<<>>))>>
    /\ (Returned("Style::as_json_value") /\ input.arg.in_textmate_rule) =>
           /\ input.arg.self.font_style \in {None, Some("Inherit")}
              => FieldsNamed(output[1], "fontStyle") = <<>>
           /\ FieldsNamed(output[1], "fontStyle") # <<Field("fontStyle", JString(<<>>))>>

\* C13: the settings object of a scope rule has no fontStyle key exactly when
\* the font style is Inherit (textmate::FontStyle::Inherit, and
\* Some(FontStyle::Inherit) in style.rs); a font style that is set with bold,
\* italic and underline all false, and in style.rs a style without font
\* style, is emitted as the empty string: "fontStyle": "".
C13_FontStyleOmittedOnlyForInherit ==
    /\ Returned("RuleSettings::serialize") =>
           /\ Len(FieldsNamed(output[1], "fontStyle")) =
                  IF input.arg.font_style.tag = "Inherit" THEN 0 ELSE 1
           /\ (/\ input.arg.font_style.tag = "Set"
               /\ ~input.arg.font_style.italic
               /\ ~input.arg.font_style.bold
               /\ ~input.arg.font_style.underline)
              => FieldsNamed(output[1], "fontStyle") =
                     <<Field("fontStyle", JString(<<>>))>>
    /\ (Returned("Style::as_json_value") /\ input.arg.in_textmate_rule) =>
           /\ Len(FieldsNamed(output[1], "fontStyle")) =
                  IF input.arg.self.font_style = Some("Inherit") THEN 0 ELSE 1
           /\ input.arg.self.font_style = None
              => FieldsNamed(output[1], "fontStyle") =
                     <<Field("fontStyle", JString(<<>>))>>

\* a colour with a font style set to no axis at all: the empty string is there
C13_Witness ==
    /\ Returned("RuleSettings::serialize")
    /\ input.arg.foreground # None
    /\ input.arg.font_style = [tag |-> "Set", bold |-> FALSE, italic |-> FALSE,
                               underline |-> FALSE]
    /\ Len(output[1].fields) = 2
    /\ output[1].fields[2] = Field("fontStyle", JString(<<>>))

\* the fields of a semantic style that one axis accounts for
AxisEmitted(key, setting) ==
    FieldsNamed(output[1], key) =
        CASE setting = "True" -> <<Field(key, JBool(TRUE))>>
          [] setting = "False" -> <<Field(key, JBool(FALSE))>>
          [] setting = "Inherit" -> <<>>

\* C14: in the settings object of a semantic rule each of bold, italic and
\* underline is a boolean field of its own, there exactly when the axis is
\* True (true) or False (false); an axis that is Inherit gives no field, so
\* the axis fields emitted are those of the axes that are not Inherit, and
\* nothing but them and the foreground is emitted.
C14_SemanticAxesAsBooleans ==
    Returned("Style::serialize") =>
        /\ AxisEmitted("bold", input.arg.font_style.bold)
        /\ AxisEmitted("italic", input.arg.font_style.italic)
        /\ AxisEmitted("underline", input.arg.font_style.underline)
        /\ \A i \in 1..Len(output[1].fields) :
               \/ output[1].fields[i].key \in {"bold", "italic", "underline"}
               \/ /\ output[1].fields[i].key = "foreground"
                  /\ output[1].fields[i].value.json = "String"
                  /\ input.arg.foreground # None

\* bold True, italic False, underline Inherit: two fields, true and false
C14_Witness ==
    /\ Returned("Style::serialize")
    /\ input.arg.foreground = None
    /\ input.arg.font_style = [bold |-> "True", italic |-> "False",
                               underline |-> "Inherit"]
    /\ output[1].fields = <<Field("bold", JBool(TRUE)), Field("italic", JBool(FALSE))>>

\* the value that the pretty printer wrote into the text of a theme
Document == SelectSeq(output[1], LAMBDA part : part.json = "Struct")[1]

\* C15: the document of a theme has the fields name, tokenColors,
\* semanticHighlighting and colors, each once; semanticTokenColors is there
\* if and only if the highlighting is On, an empty rule map included, and
\* semanticHighlighting is then true; when it is Off semanticHighlighting is
\* false and there is no semanticTokenColors key.
C15_TopLevelFields ==
    Returned("serialize_theme") =>
        LET on == input.arg.semantic_highlighting.tag = "On"
        IN  /\ \A key \in {"name", "tokenColors", "semanticHighlighting", "colors"} :
                   Len(FieldsNamed(Document, key)) = 1
            /\ Len(FieldsNamed(Document, "semanticTokenColors")) = IF on THEN 1 ELSE 0
            /\ FieldsNamed(Document, "semanticHighlighting") =
                   <<Field("semanticHighlighting", JBool(on))>>
            /\ on => FieldsNamed(Document, "semanticTokenColors")[1].value.json = "Map"
            /\ \A i \in 1..Len(Document.fields) :
                   Document.fields[i].key \in
                       {"name", "tokenColors", "semanticHighlighting",
                        "semanticTokenColors", "colors"}

\* highlighting On with no rule at all: the key is there with an empty map
C15_Witness ==
    /\ Returned("serialize_theme")
    /\ input.arg.semantic_highlighting = On(<<>>)
    /\ FieldsNamed(Document, "semanticTokenColors") =
           <<Field("semanticTokenColors", JMap(<<>>))>>

\* A line of text that is not JSON.
Line(text) == [json |-> "Line", text |-> text]

DoNotEdit == "// Do not edit directly; this file is generated."

\* C17: the text that serialize_theme returns begins, for every theme, with
\* the line "// Do not edit directly; this file is generated.", before the
\* opening brace of the document. serialize_theme starts from an empty
\* buffer and hands it to the serializer, so the text begins with the brace.
C17_BeginsWithDoNotEdit ==
    Returned("serialize_theme") =>
        /\ Len(output[1]) >= 2
        /\ output[1][1] = Line(DoNotEdit)
        /\ output[1][2].json = "Struct"

\* C22: build(name) returns a Theme whose name is the given name, whose
\* textmate_rules and workbench_rules are the builder's, element for element
\* in the same order, and whose semantic highlighting is On holding the
\* builder's semantic map, also when no semantic rule was added; a fresh
\* builder builds to no rules, On with an empty map, and no colors.
C22_BuildKeepsTheAccumulator ==
    Returned("build") =>
        LET self == input.arg.self
            built == output[1]
        IN  /\ DOMAIN built = {"name", "textmate_rules", "semantic_highlighting",
                               "workbench_rules"}
            /\ built.name = input.arg.name
            /\ Len(built.textmate_rules) = Len(self.textmate_rules)
            /\ \A i \in 1..Len(self.textmate_rules) :
                   built.textmate_rules[i] = self.textmate_rules[i]
            /\ Len(built.workbench_rules) = Len(self.workbench_rules)
            /\ \A i \in 1..Len(self.workbench_rules) :
                   built.workbench_rules[i] = self.workbench_rules[i]
            /\ built.semantic_highlighting.tag = "On"
            /\ built.semantic_highlighting.rules = self.semantic_rules

\* the fresh builder, built
C22_Witness ==
    /\ Returned("build")
    /\ input.arg.self = [textmate_rules |-> <<>>, semantic_rules |-> <<>>,
                         workbench_rules |-> <<>>]
    /\ input.arg.name = <<"M", "y">>
    /\ output[1] = [name |-> <<"M", "y">>, textmate_rules |-> <<>>,
                    semantic_highlighting |-> [tag |-> "On", rules |-> <<>>],
                    workbench_rules |-> <<>>]

\* The colour holds the bytes of the u32 hi * 2^16 + lo, most significant
\* first; where the u32 is below 2^31 the bytes are the quotients of the claim.
IsBigEndianSplit(rgba, color) ==
    /\ {color.r, color.g, color.b, color.a} \subseteq 0..255
    /\ color.r * 256 + color.g = rgba.hi
    /\ color.b * 256 + color.a = rgba.lo
    /\ rgba.hi < 32768 =>
           LET c == rgba.hi * 65536 + rgba.lo
           IN  /\ color.r = c \div 16777216
               /\ color.g = (c \div 65536) % 256
               /\ color.b = (c \div 256) % 256
               /\ color.a = c % 256

\* C23: a u32 colour 0xRRGGBBAA given to `a` (as a style) or to `w` is split
\* big-endian: r is bits 31..24, g bits 23..16, b bits 15..8, a bits 7..0, so
\* 0xF92672FF becomes r = 0xF9, g = 0x26, b = 0x72, a = 0xFF.
C23_BigEndianBytes ==
    /\ Returned("Style::from(u32)") =>
           /\ output[1].foreground # None
           /\ IsBigEndianSplit(input.arg, output[1].foreground[1])
    /\ Returned("Style::from((u32, FontStyle))") =>
           /\ output[1].foreground # None
           /\ IsBigEndianSplit(input.arg.rgba, output[1].foreground[1])
    /\ Returned("ThemeBuilder::w") =>
           /\ Len(output[1]) = Len(input.arg.selector)
           /\ \A i \in 1..Len(output[1]) :
                  IsBigEndianSplit(input.arg.color, output[1][i].value)

\* 0xF92672FF as a style
C23_Witness ==
    /\ Returned("Style::from(u32)")
    /\ input.arg = [hi |-> 63782, lo |-> 29439]
    /\ output[1].foreground = <<[r |-> 249, g |-> 38, b |-> 114, a |-> 255]>>

\* the keys of the semanticTokenColors object of the serialized theme
SemanticKeys ==
    LET entries == FieldsNamed(Document, "semanticTokenColors")[1].value.entries
    IN  [i \in 1..Len(entries) |-> entries[i].key]

\* C25: the encoding of selectors is injective on selectors built from valid
\* identifiers, the empty one included: no selector that differs from the
\* encoded one in kind, modifier sequence or language has the same encoding;
\* so the semanticTokenColors object has no key twice and as many keys as the
\* semantic map has entries.
C25_EncodingInjective ==
    /\ Returned("Selector::serialize") =>
           \A other \in Selectors :
               other # input.arg => Selector_serialize(other) # output[1]
    /\ (Returned("serialize_theme") /\ input.arg.semantic_highlighting.tag = "On") =>
           /\ Len(SemanticKeys) = Len(input.arg.semantic_highlighting.rules)
           /\ \A i \in 1..Len(SemanticKeys) : \A j \in 1..Len(SemanticKeys) :
                  i # j => SemanticKeys[i] # SemanticKeys[j]

\* the empty kind with one empty modifier and the empty language: ".:" is the
\* encoding of no other selector
C25_Witness ==
    /\ Returned("Selector::serialize")
    /\ input.arg = [kind |-> Specific(<<>>), modifiers |-> <<<<>>>>,
                    language |-> Some(<<>>)]
    /\ output[1] = <<".", ":">>
    /\ \E other \in Selectors :
           /\ other.kind = input.arg.kind
           /\ other.language = input.arg.language
           /\ other.modifiers = <<>>

\* a text that Identifier::new accepts
IsIdentifierText(str) ==
    \A i \in 1..Len(str) :
        str[i] \in AsciiLowercase \cup AsciiUppercase \cup AsciiDigit \cup {"-"}

\* C27: selectors >> m, on a set of semantic selectors and a valid modifier
\* m, appends m at the end of the modifier list of every selector of the set,
\* keeps each selector's kind, language, earlier modifiers and place in the
\* set, and does not deduplicate: a selector that ends in m ends in m, m.
C27_ModifierAppendedToEverySelector ==
    (/\ Returned("shr")
     /\ AllSemantic(input.arg.selectors)
     /\ IsIdentifierText(input.arg.rhs)) =>
        LET before == input.arg.selectors
            result == output[1]
        IN  /\ result.ok
            /\ Len(result.value) = Len(before)
            /\ \A i \in 1..Len(before) :
                   LET old == before[i].selector
                       new == result.value[i].selector
                   IN  /\ result.value[i].tag = "Semantic"
                       /\ new.kind = old.kind
                       /\ new.language = old.language
                       /\ Len(new.modifiers) = Len(old.modifiers) + 1
                       /\ SubSeq(new.modifiers, 1, Len(old.modifiers)) = old.modifiers
                       /\ new.modifiers[Len(new.modifiers)] = input.arg.rhs

\* (s("v") >> "m" | s("v")) >> "m": the first selector ends in m, m
C27_Witness ==
    /\ Returned("shr")
    /\ input.arg.selectors = SemVM \o SemV
    /\ input.arg.rhs = <<"m">>
    /\ output[1].ok
    /\ output[1].value[1].selector.modifiers = <<<<"m">>, <<"m">>>>
    /\ output[1].value[2].selector.modifiers = <<<<"m">>>>

(***************************************************************************)
(* Properties of save_theme, under SpecSave                                *)
(***************************************************************************)
\* themes/<theme-name>-color-theme.json
ThemesSlashNameColorTheme ==
    Path_new(<<"t", "h", "e", "m", "e", "s", "/">> \o input.arg.name
             \o <<"-", "c", "o", "l", "o", "r", "-", "t", "h", "e", "m", "e",
                  ".", "j", "s", "o", "n">>)

\* C20: save_theme writes the serialized theme to
\* themes/<theme-name>-color-theme.json and to no other file; when themes/
\* does not exist it is created first, and when creating it fails the result
\* is CreateThemesDir and no file is written; when themes/ exists and is not
\* a directory the result is ThemesDirIsNotDir, no file is written and no
\* directory created; a failed write returns WriteTheme carrying the theme
\* path. A theme name that starts with '/' is written outside themes/.
C20_SavedUnderThemes ==
    Returned("save_theme") =>
        LET result == output[1]
            before == input.before
        IN  /\ result.ok =>
                  /\ fs.themes = "dir"
                  /\ fs.files =
                         {f \in before.files : f.path # ThemesSlashNameColorTheme}
                         \cup {[path |-> ThemesSlashNameColorTheme,
                                content |-> <<Theme_serialize(input.arg)>>]}
            /\ before.themes = "file" =>
                  /\ result = Err([tag |-> "ThemesDirIsNotDir"])
                  /\ fs = before
            /\ (before.themes \in {"absent", "dangling"} /\ fs.themes # "dir") =>
                  /\ result = Err([tag |-> "CreateThemesDir"])
                  /\ fs = before
            /\ (~result.ok /\ fs.themes = "dir") =>
                  /\ result = Err([tag |-> "WriteTheme", path |-> ThemesSlashNameColorTheme])
                  /\ fs.files = before.files
            /\ ~result.ok => result.error.tag \in {"ThemesDirIsNotDir", "CreateThemesDir",
                                                   "WriteTheme"}

\* The same for the theme names that do not start with '/'.
C20_SavedUnderThemesUnlessRooted ==
    (input.arg.name = <<>> \/ Head(input.arg.name) # "/") => C20_SavedUnderThemes
====
